---- MODULE Spec2Model ----
(***************************************************************************)
(* Typing templates of numba (numba/typing/templates.py): signatures,      *)
(* ratings, the shared overload resolver, index normalisation, the         *)
(* getitem templates, attribute templates and the builtin registry.        *)
(***************************************************************************)
EXTENDS Integers, Sequences, FiniteSets, TLC

VARIABLES
    context,    \* FunctionTemplate.context: the type_compatibility table
    cases,      \* the case list handed to the resolver
    args,       \* the actual argument types of the call
    kws,        \* the keyword arguments of the call
    pc,         \* position of the call: "call" before it runs, "done" after
    candids,    \* local candids of _resolve_overload when it finished its loop
    ratings,    \* local ratings of _resolve_overload when it finished its loop
    asked,      \* the type_compatibility queries made, as <<case index, actual, formal>>
    outcome,    \* what the call produced: a returned value or a raised error
    op,         \* the function or method the call entered
    sigset,     \* a Python set of Signature objects
    self,       \* the template object the call was made on
    BUILTINS,         \* the module's list of function template classes
    BUILTIN_ATTRS,    \* the module's list of attribute template classes
    BUILTIN_GLOBALS,  \* the module's list of (value, type) pairs
    template_cases    \* the cases attribute of the concrete template classes

\* the registry tables and the class attributes
registry == <<BUILTINS, BUILTIN_ATTRS, BUILTIN_GLOBALS, template_cases>>

vars == <<context, cases, args, kws, pc, candids, ratings, asked, outcome, op,
          sigset, self, registry>>

----------------------------------------------------------------------------
(* Bounds of the model *)

\* longest case list handed to the resolver
MaxCases == 3

\* highest rank of an array type
MaxNdim == 3

\* highest count of a uniform tuple type
MaxCount == 4

\* most arguments a call of a template is given
MaxArgs == 3

\* most registrations made after the module is loaded
MaxRegistrations == 1

\* most elements a set of signatures is grown to
MaxSetSize == 2

\* number of distinct values hash() is let to take
HashSpace == 5

----------------------------------------------------------------------------
(* Types *)

NoneValue == [kind |-> "None"]

Scalar(n) == [kind |-> "scalar", name |-> n]

int32 == Scalar("int32")
int64 == Scalar("int64")
float32 == Scalar("float32")
float64 == Scalar("float64")
intp == Scalar("intp")
boolean == Scalar("boolean")
none == Scalar("none")
slice2_type == Scalar("slice2")
slice3_type == Scalar("slice3")

\* types.UniTuple(dtype, count)
UniTuple(dtype, count) == [kind |-> "UniTuple", dtype |-> dtype, count |-> count]

\* types.Array(dtype, ndim, layout)
Array(dtype, ndim, layout) ==
    [kind |-> "Array", dtype |-> dtype, ndim |-> ndim, layout |-> layout]

\* types.UniTupleIter(unituple)
UniTupleIter(unituple) == [kind |-> "UniTupleIter", unituple |-> unituple]

\* types.Method(template, this), types.Function(template), types.Module(pymod)
Method(template, this) == [kind |-> "Method", template |-> template, this |-> this]
Function(template) == [kind |-> "Function", template |-> template]
Module(pymod) == [kind |-> "Module", pymod |-> pymod]

complex64 == Scalar("complex64")
complex128 == Scalar("complex128")
range_type == Scalar("range_type")
len_type == Scalar("len_type")
slice_type == Scalar("slice_type")
abs_type == Scalar("abs_type")
print_type == Scalar("print_type")
range_state32_type == Scalar("range_state32")
range_state64_type == Scalar("range_state64")
range_iter32_type == Scalar("range_iter32")
range_iter64_type == Scalar("range_iter64")

\* isinstance(t, types.UniTuple), isinstance(t, types.Array), ...
IsUniTuple(t) == t.kind = "UniTuple"
IsArray(t) == t.kind = "Array"
IsUniTupleIter(t) == t.kind = "UniTupleIter"

\* len(idx) of a uniform tuple type is its count
UniTuple_len(t) == t.count

\* ary.copy(layout=...), ary.copy(ndim=...), ary.copy(dtype=...): the same
\* array type but for the field given
Array_copy_layout(ary, layout) == [ary EXCEPT !.layout = layout]
Array_copy_ndim(ary, ndim) == [ary EXCEPT !.ndim = ndim]
Array_copy_dtype(ary, dtype) == [ary EXCEPT !.dtype = dtype]

\* the scalar types the resolver is exercised on
ResolverTypes == {int32, int64}

\* the verdicts of context.type_compatibility; NoneValue is "incompatible"
Verdicts == {"exact", "promote", "safe", "unsafe"}

----------------------------------------------------------------------------
(* Signature *)

Signature(return_type, sigargs, recvr) ==
    [return_type |-> return_type, args |-> sigargs, recvr |-> recvr]

signature(return_type, sigargs) == Signature(return_type, sigargs, NoneValue)

\* "%s -> %s" % (self.args, self.return_type): the receiver is not rendered
Signature_repr(s) == <<s.args, "->", s.return_type>>

\* hash() of a type
TypeHash(t) ==
    IF t = int32 THEN 1 ELSE IF t = int64 THEN 2 ELSE IF t = intp THEN 3 ELSE 4

\* hash() of a tuple of types: a function of its elements and their order
RECURSIVE TupleHash(_)
TupleHash(a) ==
    IF a = <<>> THEN 1
    ELSE (3 * TupleHash(SubSeq(a, 1, Len(a) - 1)) + TypeHash(a[Len(a)])) % HashSpace

\* Signature.__hash__
Signature_hash(s) == TupleHash(s.args)

\* an equality that also compares the return types
Signature_eq_with_return(s, t) ==
    s.args = t.args /\ s.recvr = t.recvr /\ s.return_type = t.return_type

\* Signature.__eq__ on two signatures
Signature_eq(s, t) == s.args = t.args /\ s.recvr = t.recvr

\* Signature.__ne__
Signature_ne(s, t) == ~Signature_eq(s, t)

\* Signature.is_method
Signature_is_method(s) == s.recvr # NoneValue

\* set.add(s): s joins the set unless a member of equal hash equals it
SetAdd(set, s) ==
    IF \E e \in set : Signature_hash(e) = Signature_hash(s) /\ Signature_eq(e, s)
    THEN set
    ELSE set \cup {s}

----------------------------------------------------------------------------
(* Rating *)

Rating_init == [promote |-> 0, safe_convert |-> 0, unsafe_convert |-> 0]

Rating_astuple_promote_first(rate) ==
    <<rate.promote, rate.safe_convert, rate.unsafe_convert>>

Rating_astuple(rate) == <<rate.unsafe_convert, rate.safe_convert, rate.promote>>

\* Python's order on tuples of equal length
RECURSIVE TupleLess(_, _)
TupleLess(x, y) ==
    IF x = <<>> \/ y = <<>> THEN x = <<>> /\ y # <<>>
    ELSE IF Head(x) # Head(y) THEN Head(x) < Head(y)
    ELSE TupleLess(Tail(x), Tail(y))

----------------------------------------------------------------------------
(* FunctionTemplate._resolve_overload *)

\* a verdict that also counts an exact match as a promotion
CountVerdict_exact_promotes(rate, by) ==
    IF by \in {"promote", "exact"} THEN [rate EXCEPT !.promote = @ + 1]
    ELSE IF by = "safe" THEN [rate EXCEPT !.safe_convert = @ + 1]
    ELSE IF by = "unsafe" THEN [rate EXCEPT !.unsafe_convert = @ + 1]
    ELSE rate

\* the if/elif chain on a verdict that is not None and is a known one
CountVerdict(rate, by) ==
    IF by = "promote" THEN [rate EXCEPT !.promote = @ + 1]
    ELSE IF by = "safe" THEN [rate EXCEPT !.safe_convert = @ + 1]
    ELSE IF by = "unsafe" THEN [rate EXCEPT !.unsafe_convert = @ + 1]
    ELSE rate

\* the inner loop over zip(args, case.args), from position i on; zip stops at
\* the shorter of the two
RECURSIVE RateArgs(_, _, _, _, _, _)
RateArgs(ctx, actuals, formals, i, rate, log) ==
    IF i > Len(actuals) \/ i > Len(formals)
    THEN [status |-> "rated", rate |-> rate, log |-> log]
    ELSE LET by   == ctx[<<actuals[i], formals[i]>>]
             log2 == Append(log, <<actuals[i], formals[i]>>)
         IN  IF by = "None"
             THEN [status |-> "break", rate |-> rate, log |-> log2]
             ELSE IF by \in {"promote", "safe", "unsafe", "exact"}
             THEN RateArgs(ctx, actuals, formals, i + 1, CountVerdict(rate, by), log2)
             ELSE [status |-> "unreachable", rate |-> rate, log |-> log2]

\* an arity test that lets a call with fewer actuals than formals through
ArityMatches_atmost(actuals, case) == Len(actuals) <= Len(case.args)

\* len(args) == len(case.args)
ArityMatches(actuals, case) == Len(actuals) = Len(case.args)

\* the outer loop over the cases, from case k on
RECURSIVE RateCases(_, _, _, _, _)
RateCases(ctx, cs, actuals, k, acc) ==
    IF k > Len(cs) THEN acc
    ELSE IF ~ArityMatches(actuals, cs[k])
    THEN RateCases(ctx, cs, actuals, k + 1, acc)
    ELSE LET r    == RateArgs(ctx, actuals, cs[k].args, 1, Rating_init, <<>>)
             log2 == acc.asked \o [j \in 1..Len(r.log) |-> <<k>> \o r.log[j]]
         IN  IF r.status = "unreachable"
             THEN [acc EXCEPT !.asked = log2, !.raised = TRUE]
             ELSE IF r.status = "break"
             THEN RateCases(ctx, cs, actuals, k + 1, [acc EXCEPT !.asked = log2])
             ELSE RateCases(ctx, cs, actuals, k + 1,
                            [acc EXCEPT !.asked = log2,
                                        !.ratings = Append(@, Rating_astuple(r.rate)),
                                        !.candids = Append(@, cs[k])])

\* zip(ratings, candids)
Zip(rs, cs) == [i \in 1..Len(rs) |-> <<rs[i], cs[i]>>]

\* insert pair p behind every pair whose key is not greater: a stable sort
RECURSIVE InsertByKey(_, _)
InsertByKey(p, s) ==
    IF s = <<>> THEN <<p>>
    ELSE IF TupleLess(p[1], Head(s)[1]) THEN <<p>> \o s
    ELSE <<Head(s)>> \o InsertByKey(p, Tail(s))

\* a sort that leaves the pairs in the order of the case list
SortedByKey_unsorted(pairs) == pairs

\* sorted(pairs, key=lambda i: i[0])
RECURSIVE SortedByKey(_)
SortedByKey(pairs) ==
    IF pairs = <<>> THEN <<>>
    ELSE InsertByKey(pairs[Len(pairs)], SortedByKey(SubSeq(pairs, 1, Len(pairs) - 1)))

\* an ambiguous list that names every surviving candidate
RECURSIVE Ambiguous_all(_, _)
Ambiguous_all(ordered, first) ==
    IF ordered = <<>> THEN <<>>
    ELSE <<Signature_repr(Head(ordered)[2])>> \o Ambiguous_all(Tail(ordered), first)

\* the ambiguous list: str(case) of every pair rated like the first one
RECURSIVE Ambiguous(_, _)
Ambiguous(ordered, first) ==
    IF ordered = <<>> THEN <<>>
    ELSE (IF Head(ordered)[1] = first
          THEN <<Signature_repr(Head(ordered)[2])>> ELSE <<>>)
         \o Ambiguous(Tail(ordered), first)

\* lines 110-124: the best case of the rated candidates, or the ambiguity error
FindBest(key, actuals, loop, ordered) ==
    LET locals(o) == [outcome |-> o, candids |-> loop.candids,
                      ratings |-> loop.ratings, asked |-> loop.asked]
    IN  IF loop.raised
        THEN locals([kind |-> "Exception"])
        ELSE IF ordered = <<>>
        THEN locals([kind |-> "return", value |-> NoneValue])
        ELSE IF Len(ordered) > 1 /\ ordered[1][1] = ordered[2][1]
        THEN locals([kind |-> "TypeError", key |-> key, args |-> actuals,
                     ambiguous |-> Ambiguous(ordered, ordered[1][1])])
        ELSE locals([kind |-> "return", value |-> ordered[1][2]])

\* what _resolve_overload(cases, args, kws) does, with its locals
ResolveOverload(key, ctx, cs, actuals, kw) ==
    IF kw # <<>>
    THEN [outcome |-> [kind |-> "AssertionError"],
          candids |-> <<>>, ratings |-> <<>>, asked |-> <<>>]
    ELSE CHOOSE r \in
           { FindBest(key, actuals, loop, SortedByKey(Zip(loop.ratings, loop.candids))) :
               loop \in { RateCases(ctx, cs, actuals, 1,
                              [candids |-> <<>>, ratings |-> <<>>, asked |-> <<>>,
                               raised |-> FALSE]) } } : TRUE

----------------------------------------------------------------------------
(* normalize_index and GetItemArray.generic *)

\* a normalisation that keeps the element type of a uniform tuple
normalize_index_keeps_dtype(index) ==
    IF IsUniTuple(index) THEN index
    ELSE IF index = slice3_type THEN slice3_type
    ELSE IF index = slice2_type THEN slice2_type
    ELSE intp

normalize_index(index) ==
    IF IsUniTuple(index) THEN UniTuple(intp, index.count)
    ELSE IF index = slice3_type THEN slice3_type
    ELSE IF index = slice2_type THEN slice2_type
    ELSE intp

Return(v) == [kind |-> "return", value |-> v]
Raise(e) == [kind |-> e]

\* a generic that accepts a tuple index longer than the rank
GetItemArray_generic_no_upper(a, kw) ==
    IF kw # <<>> THEN Raise("AssertionError")
    ELSE IF Len(a) # 2 THEN Raise("ValueError")
    ELSE LET ary == a[1]
             idx == normalize_index(a[2])
         IN  IF ~IsArray(ary) THEN Return(NoneValue)
             ELSE IF idx \in {slice2_type, slice3_type}
             THEN Return(signature(Array_copy_layout(ary, "A"), <<ary, idx>>))
             ELSE IF IsUniTuple(idx)
             THEN IF ary.ndim > UniTuple_len(idx) THEN Return(NoneValue)
                  ELSE Return(signature(ary.dtype, <<ary, idx>>))
             ELSE IF idx = intp
             THEN IF ary.ndim # 1 THEN Return(NoneValue)
                  ELSE Return(signature(ary.dtype, <<ary, idx>>))
             ELSE Raise("Exception")

\* GetItemArray.generic(args, kws)
GetItemArray_generic(a, kw) ==
    IF kw # <<>> THEN Raise("AssertionError")
    ELSE IF Len(a) # 2 THEN Raise("ValueError")
    ELSE LET ary == a[1]
             idx == normalize_index(a[2])
         IN  IF ~IsArray(ary) THEN Return(NoneValue)
             ELSE IF idx \in {slice2_type, slice3_type}
             THEN Return(signature(Array_copy_layout(ary, "A"), <<ary, idx>>))
             ELSE IF IsUniTuple(idx)
             THEN IF ary.ndim > UniTuple_len(idx) THEN Return(NoneValue)
                  ELSE IF ary.ndim < UniTuple_len(idx) THEN Return(NoneValue)
                  ELSE Return(signature(ary.dtype, <<ary, idx>>))
             ELSE IF idx = intp
             THEN IF ary.ndim # 1 THEN Return(NoneValue)
                  ELSE Return(signature(ary.dtype, <<ary, idx>>))
             ELSE Raise("Exception")

----------------------------------------------------------------------------
(* The other generics of the abstract templates *)

GetIterUniTuple_generic(a, kw) ==
    IF kw # <<>> THEN Raise("AssertionError")
    ELSE IF Len(a) # 1 THEN Raise("ValueError")
    ELSE IF IsUniTuple(a[1]) THEN Return(signature(UniTupleIter(a[1]), <<a[1]>>))
    ELSE Return(NoneValue)

IterNextSafe_generic(a, kw) ==
    IF kw # <<>> THEN Raise("AssertionError")
    ELSE IF Len(a) # 1 THEN Raise("ValueError")
    ELSE IF IsUniTupleIter(a[1])
    THEN Return(signature(a[1].unituple.dtype, <<a[1]>>))
    ELSE Return(NoneValue)

\* the one generic that does not assert on kws
GetItemUniTuple_generic(a, kw) ==
    IF Len(a) # 2 THEN Raise("ValueError")
    ELSE IF IsUniTuple(a[1])
    THEN Return(signature(a[1].dtype, <<a[1], normalize_index(a[2])>>))
    ELSE Return(NoneValue)

SetItemArray_generic(a, kw) ==
    IF kw # <<>> THEN Raise("AssertionError")
    ELSE IF Len(a) # 3 THEN Raise("ValueError")
    ELSE IF IsArray(a[1])
    THEN Return(signature(none, <<a[1], normalize_index(a[2]), a[1].dtype>>))
    ELSE Return(NoneValue)

LenArray_generic(a, kw) ==
    IF kw # <<>> THEN Raise("AssertionError")
    ELSE IF Len(a) # 1 THEN Raise("ValueError")
    ELSE IF IsArray(a[1]) THEN Return(signature(intp, <<a[1]>>))
    ELSE Return(NoneValue)

\* Array_flatten.generic: self.this is the array the method is bound to
Array_flatten_generic(this, a, kw) ==
    IF a # <<>> THEN Raise("AssertionError")
    ELSE IF kw # <<>> THEN Raise("AssertionError")
    ELSE IF this.layout = "C"
    THEN Return(Signature(Array_copy_ndim(this, 1), <<>>, this))
    ELSE Return(NoneValue)

CmpOpEqArray_generic(a, kw) ==
    IF kw # <<>> THEN Raise("AssertionError")
    ELSE IF Len(a) # 2 THEN Raise("ValueError")
    ELSE IF IsArray(a[1]) /\ a[1] = a[2]
    THEN Return(signature(Array_copy_dtype(a[1], boolean), <<a[1], a[2]>>))
    ELSE Return(NoneValue)

Numpy_unary_ufunc_generic(a, kw) ==
    IF kw # <<>> THEN Raise("AssertionError")
    ELSE IF Len(a) # 2 THEN Raise("ValueError")
    ELSE IF IsArray(a[1]) /\ IsArray(a[2])
    THEN IF a[1].dtype # a[2].dtype THEN Return(NoneValue)
         ELSE Return(signature(a[2], <<a[1], a[2]>>))
    ELSE Return(NoneValue)

Numpy_binary_ufunc_generic(a, kw) ==
    IF kw # <<>> THEN Raise("AssertionError")
    ELSE IF Len(a) # 3 THEN Raise("ValueError")
    ELSE IF IsArray(a[1]) /\ IsArray(a[2]) /\ IsArray(a[3])
    THEN IF a[1].dtype # a[2].dtype /\ a[1].dtype # a[3].dtype
         THEN Return(NoneValue)
         ELSE Return(signature(a[3], <<a[1], a[2], a[3]>>))
    ELSE Return(NoneValue)

\* getattr(self, "generic")(args, kws) of the template object tmpl
Generic(tmpl, a, kw) ==
    CASE tmpl.name = "GetIterUniTuple"    -> GetIterUniTuple_generic(a, kw)
      [] tmpl.name = "IterNextSafe"       -> IterNextSafe_generic(a, kw)
      [] tmpl.name = "GetItemUniTuple"    -> GetItemUniTuple_generic(a, kw)
      [] tmpl.name = "GetItemArray"       -> GetItemArray_generic(a, kw)
      [] tmpl.name = "SetItemArray"       -> SetItemArray_generic(a, kw)
      [] tmpl.name = "LenArray"           -> LenArray_generic(a, kw)
      [] tmpl.name = "Array_flatten"      -> Array_flatten_generic(tmpl.this, a, kw)
      [] tmpl.name = "CmpOpEqArray"       -> CmpOpEqArray_generic(a, kw)
      [] tmpl.name = "Numpy_unary_ufunc"  -> Numpy_unary_ufunc_generic(a, kw)
      [] tmpl.name = "Numpy_binary_ufunc" -> Numpy_binary_ufunc_generic(a, kw)

\* the key attribute of a function template class
TemplateKey(name) ==
    CASE name = "GetIterUniTuple"    -> "getiter"
      [] name = "IterNextSafe"       -> "iternextsafe"
      [] name = "GetItemUniTuple"    -> "getitem"
      [] name = "GetItemArray"       -> "getitem"
      [] name = "SetItemArray"       -> "setitem"
      [] name = "LenArray"           -> "len_type"
      [] name = "Array_flatten"      -> "array.flatten"
      [] name = "CmpOpEqArray"       -> "=="
      [] name = "Numpy_unary_ufunc"  -> "numpy.absolute"
      [] name = "Numpy_binary_ufunc" -> "numpy.add"
      [] name = "Slice"              -> "slice_type"
      [] name = "GetIter"            -> "getiter"

\* an apply that hands back what generic computed without ranking it
AbstractTemplate_apply_unranked(tmpl, ctx, a, kw) ==
    LET sig == Generic(tmpl, a, kw)
    IN  [outcome |-> sig,
         cases |-> IF sig.kind = "return" /\ sig.value # NoneValue
                   THEN <<sig.value>> ELSE <<>>,
         candids |-> <<>>, ratings |-> <<>>, asked |-> <<>>]

\* AbstractTemplate.apply(args, kws) under the context ctx
AbstractTemplate_apply(tmpl, ctx, a, kw) ==
    LET nothing(o) == [outcome |-> o, cases |-> <<>>, candids |-> <<>>,
                       ratings |-> <<>>, asked |-> <<>>]
    IN  CHOOSE res \in
          { IF sig.kind # "return" THEN nothing(sig)
            ELSE IF sig.value = NoneValue THEN nothing(Return(NoneValue))
            ELSE [cases |-> <<sig.value>>] @@
                 ResolveOverload(TemplateKey(tmpl.name), ctx, <<sig.value>>, a, kw)
            : sig \in {Generic(tmpl, a, kw)} } : TRUE

\* ConcreteTemplate.apply(args, kws) on a template whose cases are cs
ConcreteTemplate_apply(name, cs, ctx, a, kw) ==
    IF cs = <<>>
    THEN [outcome |-> Raise("AssertionError"), cases |-> <<>>, candids |-> <<>>,
          ratings |-> <<>>, asked |-> <<>>]
    ELSE [cases |-> cs] @@ ResolveOverload(TemplateKey(name), ctx, cs, a, kw)

----------------------------------------------------------------------------
(* Attribute templates *)

MathNames ==
    {"fabs", "exp", "sqrt", "log", "sin", "cos", "tan", "sinh", "cosh", "tanh",
     "asin", "acos", "atan", "asinh", "acosh", "atanh"}

NumpyNames ==
    {"absolute", "exp", "sin", "cos", "tan", "add", "subtract", "multiply",
     "divide"}

\* the names attr for which the class defines a method resolve_<attr>
Handlers(name) ==
    CASE name = "ArrayAttribute"       -> {"shape", "flatten"}
      [] name = "Complex64Attribute"   -> {"real", "imag"}
      [] name = "Complex128Attribute"  -> {"real", "imag"}
      [] name = "MathModuleAttribute"  -> MathNames
      [] name = "NumpyModuleAttribute" -> NumpyNames

\* self.resolve_<attr>(value)
CallHandler(name, attr, value) ==
    CASE name = "ArrayAttribute" ->
           IF ~IsArray(value) THEN Raise("AttributeError")
           ELSE IF attr = "shape" THEN Return(UniTuple(intp, value.ndim))
           ELSE Return(Method("Array_flatten", value))
      [] name = "Complex64Attribute"   -> Return(float32)
      [] name = "Complex128Attribute"  -> Return(float64)
      [] name = "MathModuleAttribute"  -> Return(Function(<<"Math", attr>>))
      [] name = "NumpyModuleAttribute" -> Return(Function(<<"Numpy", attr>>))

\* AttributeTemplate.resolve(value, attr)
AttributeTemplate_resolve(tmpl, value, attr) ==
    IF attr \notin Handlers(tmpl.name)
    THEN [kind |-> "NotImplementedError", args |-> <<value, attr>>]
    ELSE CallHandler(tmpl.name, attr, value)

\* ClassAttrTemplate.resolve(value, attr): self.clsdict[attr]
ClassAttrTemplate_resolve(tmpl, value, attr) ==
    IF attr \in DOMAIN tmpl.clsdict
    THEN Return(tmpl.clsdict[attr])
    ELSE [kind |-> "KeyError", args |-> <<attr>>]

----------------------------------------------------------------------------
(* The registry *)

AttributeTemplateClasses ==
    {"AttributeTemplate", "ClassAttrTemplate", "ArrayAttribute", "ComplexAttribute",
     "Complex64Attribute", "Complex128Attribute", "MathModuleAttribute",
     "NumpyModuleAttribute"}

\* issubclass(template, AttributeTemplate)
IsAttributeTemplateClass(template) == template \in AttributeTemplateClasses

\* a registration that puts the class in front of the list
builtin_in_front(tables, template) ==
    IF IsAttributeTemplateClass(template)
    THEN [tables EXCEPT !.BUILTIN_ATTRS = <<template>> \o @]
    ELSE [tables EXCEPT !.BUILTINS = <<template>> \o @]

\* builtin(template)
builtin(tables, template) ==
    IF IsAttributeTemplateClass(template)
    THEN [tables EXCEPT !.BUILTIN_ATTRS = Append(@, template)]
    ELSE [tables EXCEPT !.BUILTINS = Append(@, template)]

\* builtin_global(v, t)
builtin_global(tables, v, t) ==
    [tables EXCEPT !.BUILTIN_GLOBALS = Append(@, <<v, t>>)]

\* the classes decorated with @builtin, in the order of the module
DecoratedClasses ==
    << "Print", "Abs", "Slice", "Range", "GetIter", "GetIterUniTuple", "IterNext",
       "IterNextSafe", "IterValid", "BinOpAdd", "BinOpSub", "BinOpMul", "BinOpDiv",
       "BinOpMod", "BinOpTrueDiv", "BinOpFloorDiv", "BinOpPower", "CmpOpLt",
       "CmpOpLe", "CmpOpGt", "CmpOpGe", "CmpOpEq", "CmpOpNe", "GetItemUniTuple",
       "GetItemArray", "SetItemArray", "LenArray", "ArrayAttribute", "CmpOpEqArray",
       "Complex64Attribute", "Complex128Attribute", "MathModuleAttribute",
       "NumpyModuleAttribute" >>

MathFunctions ==
    << "fabs", "exp", "sqrt", "log", "sin", "cos", "tan", "sinh", "cosh", "tanh",
       "asin", "acos", "atan", "asinh", "acosh", "atanh" >>

NumpyFunctions ==
    << "absolute", "exp", "sin", "cos", "tan", "add", "subtract", "multiply",
       "divide" >>

\* the builtin_global calls of the module, in order; xrange only before Python 3
ModuleGlobals(py2) ==
    << <<"range", range_type>> >>
    \o (IF py2 THEN << <<"xrange", range_type>> >> ELSE <<>>)
    \o << <<"len", len_type>>, <<"slice", slice_type>>, <<"abs", abs_type>>,
          <<"print", print_type>>, <<"math", Module("math")>> >>
    \o [i \in 1..Len(MathFunctions) |->
          <<"math." \o MathFunctions[i], Function(<<"Math", MathFunctions[i]>>)>>]
    \o << <<"numpy", Module("numpy")>> >>
    \o [i \in 1..Len(NumpyFunctions) |->
          <<"numpy." \o NumpyFunctions[i], Function(<<"Numpy", NumpyFunctions[i]>>)>>]

IsFunctionTemplateClass(template) == ~IsAttributeTemplateClass(template)

\* the tables once the module is loaded: every decorated class went through
\* builtin, every pair through builtin_global
LoadedTables(py2) ==
    [BUILTINS        |-> SelectSeq(DecoratedClasses, IsFunctionTemplateClass),
     BUILTIN_ATTRS   |-> SelectSeq(DecoratedClasses, IsAttributeTemplateClass),
     BUILTIN_GLOBALS |-> ModuleGlobals(py2)]

\* the cases of the concrete templates Slice and GetIter
LoadedCases ==
    [Slice   |-> << signature(slice2_type, <<intp, intp>>),
                    signature(slice3_type, <<intp, intp, intp>>) >>,
     GetIter |-> << signature(range_iter32_type, <<range_state32_type>>),
                    signature(range_iter64_type, <<range_state64_type>>) >>]

----------------------------------------------------------------------------
(* The resolver applied to every bounded case list, call and oracle *)

\* cases of the builtin tables over int32 and int64: BinOp, BinOpTrueDiv, Abs
CaseUniverse ==
    { signature(int32, <<int32, int32>>),
      signature(int64, <<int64, int64>>),
      signature(float64, <<int32, int32>>),
      signature(int32, <<int32>>) }

CaseLists == UNION {[1..n -> CaseUniverse] : n \in 0..MaxCases}

\* argument tuples of one or two scalar types
ArgTuples ==
    {<<t>> : t \in ResolverTypes} \cup (ResolverTypes \X ResolverTypes)

\* every total type_compatibility table over the resolver's types
Oracles == [ResolverTypes \X ResolverTypes -> Verdicts \cup {"None"}]

NotCalled == [kind |-> "pending"]

NoTemplate == [name |-> "none"]

InitResolve ==
    /\ context \in Oracles
    /\ cases = <<>>
    /\ args = <<>>
    /\ kws = <<>>
    /\ pc = "call"
    /\ candids = <<>>
    /\ ratings = <<>>
    /\ asked = <<>>
    /\ outcome = NotCalled
    /\ op = "none"
    /\ sigset = {}
    /\ self = NoTemplate
    /\ BUILTINS = <<>>
    /\ BUILTIN_ATTRS = <<>>
    /\ BUILTIN_GLOBALS = <<>>
    /\ template_cases = <<>>

\* FunctionTemplate._select(cases, args, kws) on a case list and a call
Select ==
    /\ pc = "call"
    /\ \E cs \in CaseLists, a \in ArgTuples :
         \E r \in {ResolveOverload("key", context, cs, a, <<>>)} :
             /\ cases' = cs
             /\ args' = a
             /\ outcome' = r.outcome
             /\ candids' = r.candids
             /\ ratings' = r.ratings
             /\ asked' = r.asked
    /\ pc' = "done"
    /\ op' = "_select"
    /\ UNCHANGED <<context, kws, sigset, self, registry>>

NextResolve == Select

SpecResolve == InitResolve /\ [][NextResolve]_vars

----------------------------------------------------------------------------
(* Properties of a finished resolver call *)

\* the oracle finds actual i compatible with formal i, for every i
Compatible(c) ==
    /\ Len(c.args) = Len(args)
    /\ \A i \in 1..Len(args) : context[<<args[i], c.args[i]>>] # "None"

HowMany(c, verdict) ==
    Cardinality({i \in 1..Len(args) : context[<<args[i], c.args[i]>>] = verdict})

Survivors == {k \in 1..Len(cases) : Compatible(cases[k])}

\* the conversions candidate k needs: unsafe, safe, promote
Conversions(k) ==
    [unsafe  |-> HowMany(cases[k], "unsafe"),
     safe    |-> HowMany(cases[k], "safe"),
     promote |-> HowMany(cases[k], "promote")]

\* x is rated worse than y: unsafe first, then safe, then promote
WorseRating(x, y) ==
    \/ x.unsafe > y.unsafe
    \/ x.unsafe = y.unsafe /\ x.safe > y.safe
    \/ x.unsafe = y.unsafe /\ x.safe = y.safe /\ x.promote > y.promote

Worse(k, j) == WorseRating(Conversions(k), Conversions(j))

Lowest ==
    LET surv == Survivors
        conv == [k \in surv |-> Conversions(k)]
    IN  {k \in surv : \A j \in surv : ~WorseRating(conv[k], conv[j])}

AllExact(k) == k \in Survivors /\ HowMany(cases[k], "exact") = Len(args)

Returned(k) == outcome = [kind |-> "return", value |-> cases[k]]

IsAmbiguityError == outcome.kind = "TypeError"

Occurrences(seq, x) == Cardinality({i \in 1..Len(seq) : seq[i] = x})

C2_ReturnedIsStrictlyBest ==
    (pc = "done" /\ outcome.kind = "return" /\ outcome.value # NoneValue) =>
        \E k \in Survivors :
            /\ Returned(k)
            /\ \A j \in Survivors \ {k} : Worse(j, k)

\* the returned candidate has more safe and promote conversions than a
\* survivor that lost to it on unsafe conversions
C2_Witness ==
    /\ pc = "done"
    /\ \E k, j \in Survivors :
          /\ Returned(k)
          /\ HowMany(cases[j], "unsafe") > HowMany(cases[k], "unsafe")
          /\ HowMany(cases[j], "safe") < HowMany(cases[k], "safe")
          /\ HowMany(cases[j], "promote") < HowMany(cases[k], "promote")

\* the cases at the given indices, in case order
RECURSIVE Pick(_, _, _)
Pick(cs, idx, k) ==
    IF k > Len(cs) THEN <<>>
    ELSE (IF k \in idx THEN <<cs[k]>> ELSE <<>>) \o Pick(cs, idx, k + 1)

\* C3: the candidates that reach the ranking are exactly the cases of arity
\* |args| whose every argument is compatible; no query is made for a case of
\* another arity; a returned signature is such a case; None is returned
\* exactly when there is no such case.
C3_SurvivorsAreArityAndCompatible ==
    pc = "done" =>
        /\ candids = Pick(cases, Survivors, 1)
        /\ \A q \in 1..Len(asked) : Len(cases[asked[q][1]].args) = Len(args)
        /\ (outcome.kind = "return" /\ outcome.value # NoneValue) =>
              /\ Len(outcome.value.args) = Len(args)
              /\ Compatible(outcome.value)
        /\ (outcome = [kind |-> "return", value |-> NoneValue]) <=> (Survivors = {})

\* one case is dropped for its arity, one for an incompatible argument, and
\* the third is returned
C3_Witness ==
    /\ pc = "done"
    /\ Len(cases) = 3
    /\ \E a, b, c \in 1..3 :
          /\ Len(cases[a].args) # Len(args)
          /\ Len(cases[b].args) = Len(args) /\ ~Compatible(cases[b])
          /\ Returned(c) /\ c \in Survivors

\* C4: a single candidate that is exact on every argument is returned, whatever
\* else survives; two or more such candidates make the call ambiguous.
C4_ExactMatchWins ==
    pc = "done" =>
        \A k \in 1..Len(cases) :
            AllExact(k) =>
                IF \E j \in 1..Len(cases) : j # k /\ AllExact(j)
                THEN IsAmbiguityError
                ELSE Returned(k)

\* the all-exact candidate is returned although a candidate with conversions
\* survives too
C4_Witness ==
    /\ pc = "done"
    /\ \E k, j \in Survivors :
          /\ AllExact(k) /\ Returned(k)
          /\ j # k /\ ~AllExact(j)

----------------------------------------------------------------------------
(* normalize_index and GetItemArray.generic on every bounded index and array *)

Layouts == {"C", "F", "A"}

ArrayTypes ==
    {Array(d, n, l) : d \in {float32, int32}, n \in 1..MaxNdim, l \in Layouts}

UniTupleTypes == {UniTuple(d, c) : d \in {intp, int32}, c \in 0..MaxCount}

IndexTypes ==
    UniTupleTypes \cup {slice2_type, slice3_type, intp, int32, float64}

InitIndex ==
    /\ context = <<>>
    /\ cases = <<>>
    /\ args = <<>>
    /\ kws = <<>>
    /\ pc = "call"
    /\ candids = <<>>
    /\ ratings = <<>>
    /\ asked = <<>>
    /\ outcome = NotCalled
    /\ op = "none"
    /\ sigset = {}
    /\ self = NoTemplate
    /\ BUILTINS = <<>>
    /\ BUILTIN_ATTRS = <<>>
    /\ BUILTIN_GLOBALS = <<>>
    /\ template_cases = <<>>

\* a call of GetItemArray.generic(args, kws)
CallGetItemArrayGeneric ==
    /\ pc = "call"
    /\ \E a \in ((ArrayTypes \cup {int32}) \X IndexTypes) \cup {<<>>, <<intp>>},
          kw \in {<<>>, <<"k">>} :
          /\ args' = a
          /\ kws' = kw
          /\ outcome' = GetItemArray_generic(a, kw)
    /\ pc' = "done"
    /\ op' = "GetItemArray.generic"
    /\ UNCHANGED <<context, cases, candids, ratings, asked, sigset, self, registry>>

\* a call of normalize_index(index)
CallNormalizeIndex ==
    /\ pc = "call"
    /\ \E idx \in IndexTypes \cup ArrayTypes :
          /\ args' = <<idx>>
          /\ outcome' = Return(normalize_index(idx))
    /\ pc' = "done"
    /\ op' = "normalize_index"
    /\ UNCHANGED <<context, cases, kws, candids, ratings, asked, sigset, self, registry>>

\* normalize_index called on the index an earlier call returned
CallNormalizeIndexAgain ==
    /\ pc = "done"
    /\ op = "normalize_index"
    /\ args' = <<outcome.value>>
    /\ outcome' = Return(normalize_index(outcome.value))
    /\ pc' = "again"
    /\ UNCHANGED <<context, cases, kws, candids, ratings, asked, op, sigset, self, registry>>

NextIndex ==
    \/ CallGetItemArrayGeneric
    \/ CallNormalizeIndex
    \/ CallNormalizeIndexAgain

SpecIndex == InitIndex /\ [][NextIndex]_vars

IntegerIndexTypes == {intp, int32}

\* C7: for an array of rank n, a uniform-tuple index of length k yields no
\* signature when k # n and (array, UniTuple(intp, n)) -> dtype when k = n; an
\* integer index yields (array, intp) -> dtype only when n = 1; a slice index
\* yields the array type under layout 'A' with its rank unchanged.
C7_GetItemArrayArity ==
    (pc = "done" /\ op = "GetItemArray.generic" /\ kws = <<>> /\ Len(args) = 2) =>
      (IsArray(args[1]) =>
        LET ary == args[1]
            idx == args[2]
        IN  /\ IsUniTuple(idx) =>
                  outcome = IF idx.count = ary.ndim
                            THEN Return(signature(ary.dtype,
                                                  <<ary, UniTuple(intp, ary.ndim)>>))
                            ELSE Return(NoneValue)
            /\ idx \in IntegerIndexTypes =>
                  outcome = IF ary.ndim = 1
                            THEN Return(signature(ary.dtype, <<ary, intp>>))
                            ELSE Return(NoneValue)
            /\ idx \in {slice2_type, slice3_type} =>
                  outcome = Return(signature(Array(ary.dtype, ary.ndim, "A"),
                                             <<ary, idx>>)))

\* a rank-2 array indexed by a pair of int32 yields its dtype
C7_Witness ==
    /\ pc = "done" /\ op = "GetItemArray.generic" /\ kws = <<>>
    /\ Len(args) = 2
    /\ args[1] = Array(float32, 2, "C")
    /\ args[2] = UniTuple(int32, 2)
    /\ outcome = Return(signature(float32, <<args[1], UniTuple(intp, 2)>>))

NormalIndexTypes ==
    {UniTuple(intp, c) : c \in 0..MaxCount} \cup {slice2_type, slice3_type, intp}

\* C8: normalize_index returns UniTuple(intp, n), slice2_type, slice3_type or
\* intp, and applied to its own result it returns that result.
C8_NormalizeIdempotent ==
    op = "normalize_index" =>
        /\ pc \in {"done", "again"} => outcome.value \in NormalIndexTypes
        /\ pc = "again" => outcome.value = args[1]

\* a uniform tuple of int32 was normalised, and normalised again
C8_Witness ==
    /\ op = "normalize_index"
    /\ pc = "again"
    /\ args[1] = UniTuple(intp, 2)
    /\ outcome.value = UniTuple(intp, 2)

----------------------------------------------------------------------------
(* Signature equality, hashing and membership in a set *)

SignatureUniverse ==
    {Signature(r, a, v) :
        r \in {int32, int64},
        a \in {<<>>, <<int32>>, <<int64>>, <<int32, int64>>},
        v \in {NoneValue, Array(float32, 1, "C")}}

InitSignature ==
    /\ context = <<>>
    /\ cases = <<>>
    /\ args = <<>>
    /\ kws = <<>>
    /\ pc = "call"
    /\ candids = <<>>
    /\ ratings = <<>>
    /\ asked = <<>>
    /\ outcome = NotCalled
    /\ op = "none"
    /\ sigset = {}
    /\ self = NoTemplate
    /\ BUILTINS = <<>>
    /\ BUILTIN_ATTRS = <<>>
    /\ BUILTIN_GLOBALS = <<>>
    /\ template_cases = <<>>

\* s == t, s != t, hash(s) and hash(t) for two signatures
CompareSignatures ==
    /\ pc = "call"
    /\ \E s, t \in SignatureUniverse :
          /\ args' = <<s, t>>
          /\ outcome' = [kind |-> "return",
                          eq |-> Signature_eq(s, t),
                          ne |-> Signature_ne(s, t),
                          hashes |-> <<Signature_hash(s), Signature_hash(t)>>]
    /\ pc' = "done"
    /\ op' = "Signature.__eq__"
    /\ UNCHANGED <<context, cases, kws, candids, ratings, asked, sigset, self, registry>>

\* a signature is added to the set
AddToSet ==
    /\ op \in {"none", "set.add"}
    /\ Cardinality(sigset) < MaxSetSize
    /\ \E s \in SignatureUniverse :
          /\ args' = <<s>>
          /\ sigset' = SetAdd(sigset, s)
          /\ outcome' = Return(NoneValue)
    /\ pc' = "done"
    /\ op' = "set.add"
    /\ UNCHANGED <<context, cases, kws, candids, ratings, asked, self, registry>>

NextSignature == CompareSignatures \/ AddToSet

SpecSignature == InitSignature /\ [][NextSignature]_vars

SameArgsAndRecvr(s, t) == s.args = t.args /\ s.recvr = t.recvr

\* C6: two signatures are equal exactly when their args and their recvr are,
\* whatever their return types; equal signatures, and any two signatures of the
\* same args, have equal hashes; a set holds at most one signature of given
\* args and recvr.
C6_EqualityIgnoresReturnType ==
    /\ op = "Signature.__eq__" =>
          /\ outcome.eq <=> SameArgsAndRecvr(args[1], args[2])
          /\ outcome.ne <=> ~SameArgsAndRecvr(args[1], args[2])
          /\ outcome.eq => outcome.hashes[1] = outcome.hashes[2]
          /\ args[1].args = args[2].args => outcome.hashes[1] = outcome.hashes[2]
    /\ \A s, t \in sigset : SameArgsAndRecvr(s, t) => s = t
    /\ op = "set.add" => \E e \in sigset : SameArgsAndRecvr(e, args[1])

\* a signature was added to a set that holds one of the same args and recvr
\* and another return type: the set did not take it
C6_Witness ==
    /\ op = "set.add"
    /\ args[1] \notin sigset
    /\ \E e \in sigset :
          /\ SameArgsAndRecvr(e, args[1])
          /\ e.return_type # args[1].return_type

----------------------------------------------------------------------------
(* The loaded module: registrations, template calls and attribute lookups *)

\* the types calls are made with
CallTypes ==
    { intp, Array(float32, 1, "C"), Array(int32, 2, "F"), UniTuple(int32, 2),
      UniTupleIter(UniTuple(int32, 2)) }

CallArgs == UNION {[1..n -> CallTypes] : n \in 0..MaxArgs}

\* no keyword arguments, or one
KwsChoices == {<<>>, << <<"out", intp>> >>}

AbstractTemplateObjects ==
    {[name |-> n] : n \in {"GetIterUniTuple", "IterNextSafe", "GetItemUniTuple",
                            "GetItemArray", "SetItemArray", "LenArray",
                            "CmpOpEqArray", "Numpy_unary_ufunc",
                            "Numpy_binary_ufunc"}}
    \cup {[name |-> "Array_flatten", this |-> t] :
             t \in {Array(float32, 1, "C"), Array(int32, 2, "F")}}

ConcreteTemplateNames == {"Slice", "GetIter"}

AttributeTemplateObjects ==
    {[name |-> n] : n \in {"ArrayAttribute", "Complex64Attribute",
                            "Complex128Attribute", "MathModuleAttribute",
                            "NumpyModuleAttribute"}}

ClassAttrTemplateObjects ==
    {[name |-> "ClassAttrTemplate", key |-> "Point", clsdict |-> d] :
        d \in {[x |-> float64], [real |-> float32, shape |-> UniTuple(intp, 1)]}}

AttrNames == MathNames \cup NumpyNames \cup {"shape", "flatten", "real", "imag",
                                              "x", "ndim"}

AttrValues == {Array(float32, 1, "C"), complex64}

\* the (actual, formal) pairs a call of the resolver can ask the context about
QueriedPairs(cs, a, kw) ==
    IF kw # <<>> THEN {}
    ELSE {<<a[i], cs[k].args[i]>> :
             k \in {j \in 1..Len(cs) : Len(cs[j].args) = Len(a)},
             i \in 1..Len(a)}

\* every table of verdicts on those pairs
ContextsFor(cs, a, kw) == [QueriedPairs(cs, a, kw) -> Verdicts \cup {"None"}]

\* the candidate list generic gives apply, empty when it gives none
GenericCases(tmpl, a, kw) ==
    LET sig == Generic(tmpl, a, kw)
    IN  IF sig.kind = "return" /\ sig.value # NoneValue THEN <<sig.value>> ELSE <<>>

Registrations == Len(BUILTINS) + Len(BUILTIN_ATTRS) + Len(BUILTIN_GLOBALS)

Init ==
    /\ \E py2 \in BOOLEAN :
         /\ BUILTINS = LoadedTables(py2).BUILTINS
         /\ BUILTIN_ATTRS = LoadedTables(py2).BUILTIN_ATTRS
         /\ BUILTIN_GLOBALS = LoadedTables(py2).BUILTIN_GLOBALS
    /\ template_cases = LoadedCases
    /\ context = <<>>
    /\ cases = <<>>
    /\ args = <<>>
    /\ kws = <<>>
    /\ pc = "call"
    /\ candids = <<>>
    /\ ratings = <<>>
    /\ asked = <<>>
    /\ outcome = NotCalled
    /\ op = "none"
    /\ sigset = {}
    /\ self = NoTemplate

Tables ==
    [BUILTINS |-> BUILTINS, BUILTIN_ATTRS |-> BUILTIN_ATTRS,
     BUILTIN_GLOBALS |-> BUILTIN_GLOBALS]

SetTables(t) ==
    /\ BUILTINS' = t.BUILTINS
    /\ BUILTIN_ATTRS' = t.BUILTIN_ATTRS
    /\ BUILTIN_GLOBALS' = t.BUILTIN_GLOBALS

CanRegister ==
    /\ pc = "call"
    /\ \E py2 \in BOOLEAN :
          Registrations < Len(DecoratedClasses) + Len(ModuleGlobals(py2))
                            + MaxRegistrations

\* builtin(template) on a class the module defines but does not register
Builtin ==
    /\ CanRegister
    /\ \E template \in {"Array_flatten", "ClassAttrTemplate"} :
          SetTables(builtin(Tables, template))
    /\ op' = "builtin"
    /\ UNCHANGED <<context, cases, args, kws, pc, candids, ratings, asked, outcome,
                   sigset, self, template_cases>>

\* builtin_global(v, t)
BuiltinGlobal ==
    /\ CanRegister
    /\ SetTables(builtin_global(Tables, "len", len_type))
    /\ op' = "builtin_global"
    /\ UNCHANGED <<context, cases, args, kws, pc, candids, ratings, asked, outcome,
                   sigset, self, template_cases>>

\* what a finished call of apply leaves behind
Finish(r, tmpl, ctx, a, kw, opname) ==
    /\ self' = tmpl
    /\ context' = ctx
    /\ args' = a
    /\ kws' = kw
    /\ cases' = r.cases
    /\ candids' = r.candids
    /\ ratings' = r.ratings
    /\ asked' = r.asked
    /\ outcome' = r.outcome
    /\ op' = opname
    /\ pc' = "done"

\* a call of ConcreteTemplate.apply(args, kws)
ConcreteApply ==
    /\ pc = "call"
    /\ \E name \in ConcreteTemplateNames, a \in CallArgs, kw \in KwsChoices :
         \E ctx \in ContextsFor(template_cases[name], a, kw) :
           \E r \in {ConcreteTemplate_apply(name, template_cases[name], ctx, a, kw)} :
              Finish(r, [name |-> name], ctx, a, kw, "ConcreteTemplate.apply")
    /\ UNCHANGED <<sigset, registry>>

\* a call of AbstractTemplate.apply(args, kws)
AbstractApply ==
    /\ pc = "call"
    /\ \E tmpl \in AbstractTemplateObjects, a \in CallArgs, kw \in KwsChoices :
         \E ctx \in ContextsFor(GenericCases(tmpl, a, kw), a, kw) :
           \E r \in {AbstractTemplate_apply(tmpl, ctx, a, kw)} :
              Finish(r, tmpl, ctx, a, kw, "AbstractTemplate.apply")
    /\ UNCHANGED <<sigset, registry>>

\* what a finished call of resolve leaves behind
FinishResolve(o, tmpl, value, attr, opname) ==
    /\ self' = tmpl
    /\ args' = <<value, Scalar(attr)>>
    /\ outcome' = o
    /\ op' = opname
    /\ pc' = "done"
    /\ context' = <<>>
    /\ kws' = <<>>
    /\ cases' = <<>>
    /\ candids' = <<>>
    /\ ratings' = <<>>
    /\ asked' = <<>>

\* a call of AttributeTemplate.resolve(value, attr)
AttributeResolve ==
    /\ pc = "call"
    /\ \E tmpl \in AttributeTemplateObjects, value \in AttrValues, attr \in AttrNames :
          FinishResolve(AttributeTemplate_resolve(tmpl, value, attr), tmpl, value, attr,
                        "AttributeTemplate.resolve")
    /\ UNCHANGED <<sigset, registry>>

\* a call of ClassAttrTemplate.resolve(value, attr)
ClassAttrResolve ==
    /\ pc = "call"
    /\ \E tmpl \in ClassAttrTemplateObjects, value \in AttrValues, attr \in AttrNames :
          FinishResolve(ClassAttrTemplate_resolve(tmpl, value, attr), tmpl, value, attr,
                        "ClassAttrTemplate.resolve")
    /\ UNCHANGED <<sigset, registry>>

\* the caller takes the result or the error, and may call again
Continue ==
    /\ pc = "done"
    /\ pc' = "call"
    /\ op' = "none"
    /\ self' = NoTemplate
    /\ outcome' = NotCalled
    /\ context' = <<>>
    /\ args' = <<>>
    /\ kws' = <<>>
    /\ cases' = <<>>
    /\ candids' = <<>>
    /\ ratings' = <<>>
    /\ asked' = <<>>
    /\ UNCHANGED <<sigset, registry>>

Next ==
    \/ Builtin
    \/ BuiltinGlobal
    \/ ConcreteApply
    \/ AbstractApply
    \/ AttributeResolve
    \/ ClassAttrResolve
    \/ Continue

Spec == Init /\ [][Next]_vars

----------------------------------------------------------------------------
(* Properties of the loaded module *)

FunctionTemplateOps == {"ConcreteTemplate.apply", "AbstractTemplate.apply"}

AttributeTemplateOps == {"AttributeTemplate.resolve", "ClassAttrTemplate.resolve"}

ResolutionOps == FunctionTemplateOps \cup AttributeTemplateOps

\* C5: every call of apply with keyword arguments, on a concrete or an
\* abstract template and whatever the arguments, fails with the assertion
\* error: it returns neither a signature nor the absent result, and raises
\* nothing else.
C5_KwargsRejected ==
    (pc = "done" /\ op \in FunctionTemplateOps /\ kws # <<>>)
        => outcome = Raise("AssertionError")

\* the names a template resolves
Recognised(tmpl) ==
    IF tmpl.name = "ClassAttrTemplate" THEN DOMAIN tmpl.clsdict
    ELSE Handlers(tmpl.name)

\* what resolving a recognised name gives: the handler's or the mapping's result
Resolved(tmpl, value, attr) ==
    IF tmpl.name = "ClassAttrTemplate" THEN Return(tmpl.clsdict[attr])
    ELSE CallHandler(tmpl.name, attr, value)

\* C9: resolve(value, attr) on any attribute template, ClassAttrTemplate
\* included, gives the result of the handler or mapping entry when attr is a
\* name the template recognises, and for every other name raises the
\* unknown-attribute error that carries (value, attr).
C9_ResolveOrUnknownAttribute ==
    (pc = "done" /\ op \in AttributeTemplateOps) =>
        LET value == args[1]
            attr  == args[2].name
        IN  IF attr \in Recognised(self)
            THEN outcome = Resolved(self, value, attr)
            ELSE outcome = [kind |-> "NotImplementedError", args |-> <<value, attr>>]

\* s is a prefix of t
IsPrefix(s, t) == Len(s) <= Len(t) /\ SubSeq(t, 1, Len(s)) = s

\* C10: a resolution operation (apply or resolve), whatever its result,
\* leaves BUILTINS, BUILTIN_ATTRS, BUILTIN_GLOBALS and every case list as they
\* were; a table changes only in builtin or builtin_global, and then keeps
\* all its entries in place and grows at the end; no step changes a case list.
C10_ResolutionLeavesRegistry ==
    [][ /\ (op' \in ResolutionOps /\ pc = "call") => registry' = registry
        /\ template_cases' = template_cases
        /\ IsPrefix(BUILTINS, BUILTINS')
        /\ IsPrefix(BUILTIN_ATTRS, BUILTIN_ATTRS')
        /\ IsPrefix(BUILTIN_GLOBALS, BUILTIN_GLOBALS')
        /\ registry' # registry =>
              /\ op' \in {"builtin", "builtin_global"}
              /\ Len(BUILTINS') + Len(BUILTIN_ATTRS') + Len(BUILTIN_GLOBALS')
                    = Registrations + 1 ]_vars

\* after a registration beyond the loaded ones, a call of apply raised
C10_Witness ==
    /\ pc = "done"
    /\ op \in FunctionTemplateOps
    /\ outcome.kind \in {"TypeError", "AssertionError", "ValueError"}
    /\ Len(BUILTINS) > Len(LoadedTables(TRUE).BUILTINS)
    /\ template_cases = LoadedCases

----------------------------------------------------------------------------
(* The resolver called again on the same cases in another order *)

\* the arrangements of n positions
Arrangements(n) == Permutations(1..n)

\* the case list cs in the order p
Permuted(cs, p) == [k \in 1..Len(cs) |-> cs[p[k]]]

\* every permutation of the case list cs
Reorderings(cs) == {Permuted(cs, p) : p \in Arrangements(Len(cs))}

\* before any call: the context is given with the call
InitOrder ==
    /\ context = <<>>
    /\ cases = <<>>
    /\ args = <<>>
    /\ kws = <<>>
    /\ pc = "call"
    /\ candids = <<>>
    /\ ratings = <<>>
    /\ asked = <<>>
    /\ outcome = NotCalled
    /\ op = "none"
    /\ sigset = {}
    /\ self = NoTemplate
    /\ BUILTINS = <<>>
    /\ BUILTIN_ATTRS = <<>>
    /\ BUILTIN_GLOBALS = <<>>
    /\ template_cases = <<>>

\* _select(cases, args, kws) on a template whose context answers every
\* question the call can ask
SelectInContext ==
    /\ pc = "call"
    /\ \E cs \in CaseLists, a \in ArgTuples :
         \E ctx \in ContextsFor(cs, a, <<>>) :
           \E r \in {ResolveOverload("key", ctx, cs, a, <<>>)} :
             /\ context' = ctx
             /\ cases' = cs
             /\ args' = a
             /\ outcome' = r.outcome
             /\ candids' = r.candids
             /\ ratings' = r.ratings
             /\ asked' = r.asked
    /\ pc' = "done"
    /\ op' = "_select"
    /\ UNCHANGED <<kws, sigset, self, registry>>

\* _select(cases, args, kws) once more, with the same context and arguments
\* and the cases of the first call in another order
SelectReordered ==
    /\ pc = "done"
    /\ op = "_select"
    /\ \E cs \in Reorderings(cases) :
         \E r \in {ResolveOverload("key", context, cs, args, <<>>)} :
             /\ cases' = cs
             /\ outcome' = r.outcome
             /\ candids' = r.candids
             /\ ratings' = r.ratings
             /\ asked' = r.asked
    /\ op' = "_select reordered"
    /\ UNCHANGED <<context, args, kws, pc, sigset, self, registry>>

NextOrder == SelectInContext \/ SelectReordered

SpecOrder == InitOrder /\ [][NextOrder]_vars

\* the candidates an ambiguity error names, as a set
Tied(o) == {o.ambiguous[i] : i \in 1..Len(o.ambiguous)}

\* the same signature, the absent result both times, or the ambiguity error
\* both times with the same tied candidates
SameOutcome(o1, o2) ==
    \/ o1.kind = "return" /\ o2.kind = "return" /\ o1.value = o2.value
    \/ /\ o1.kind = "TypeError" /\ o2.kind = "TypeError"
       /\ Tied(o1) = Tied(o2)
       /\ Len(o1.ambiguous) = Len(o2.ambiguous)

\* C11: with the same context and arguments, the resolver called on a case
\* list and called on any permutation of it returns the same signature both
\* times, or the absent result both times, or raises the ambiguity error both
\* times with the same tied candidates.
C11_OrderIndependent ==
    [][ (pc = "done" /\ op' = "_select reordered") =>
            /\ context' = context /\ args' = args
            /\ cases' \in Reorderings(cases)
            /\ SameOutcome(outcome, outcome') ]_vars

\* the resolver was called again on a reordered list whose first case is not
\* the best one, and returned a signature
C11_Witness ==
    /\ pc = "done"
    /\ op = "_select reordered"
    /\ Len(candids) >= 2
    /\ outcome.kind = "return"
    /\ outcome.value # NoneValue
    /\ outcome.value # candids[1]

----------------------------------------------------------------------------
(* AbstractTemplate.apply against what generic computed *)

\* the context finds every actual compatible with the formal of sig at its place
AllCompatible(sig) ==
    /\ Len(sig.args) = Len(args)
    /\ \A i \in 1..Len(args) : context[<<args[i], sig.args[i]>>] # "None"

\* C12: AbstractTemplate.apply(args) returns the absent result when
\* generic(args) returns none; when generic returns a signature, that
\* signature is the single candidate, and apply returns it exactly when its
\* arity is that of args and the context finds every actual compatible with
\* its formal, and returns the absent result otherwise. apply never returns
\* another signature and never raises the ambiguity error.
C12_AbstractApply ==
    (pc = "done" /\ op = "AbstractTemplate.apply") =>
        /\ outcome.kind # "TypeError"
        /\ kws = <<>> =>
             LET sig == Generic(self, args, kws)
             IN  /\ sig = Return(NoneValue) => outcome = Return(NoneValue)
                 /\ (sig.kind = "return" /\ sig.value # NoneValue) =>
                       /\ cases = <<sig.value>>
                       /\ outcome = IF AllCompatible(sig.value)
                                    THEN Return(sig.value)
                                    ELSE Return(NoneValue)
                 /\ outcome.kind = "return" =>
                       outcome.value \in {NoneValue, sig.value}

\* generic computed a signature whose index formal is not the actual given,
\* the context found an actual incompatible, and apply returned the absent
\* result
C12_Witness ==
    /\ pc = "done"
    /\ op = "AbstractTemplate.apply"
    /\ kws = <<>>
    /\ Len(cases) = 1
    /\ Len(args) = 2
    /\ cases[1].args # args
    /\ ~AllCompatible(cases[1])
    /\ outcome = Return(NoneValue)

====
